---------------------------- MODULE Spec2Model ----------------------------
(***************************************************************************)
(* Model of BeerPongPlotter.py: the Position resolver (index or            *)
(* (row, column) pair -> (x, y)) and the assembly of a BeerPongConfig      *)
(* from lists of indices, positions and phantoms.                          *)
(*                                                                         *)
(* Numbers.  A component of a (row, column) pair is a Python int or a      *)
(* Python float that is a multiple of 0.5.  It is the record               *)
(* [v2 |-> twice its value, isint |-> it is a Python int].  Comparisons    *)
(* (<, >, ==) go by value; isinstance(i, int) goes by the type.            *)
(*                                                                         *)
(* Coordinates.  x is kept in quarters of X_DIS and y in halves of Y_DIS,  *)
(* so that every coordinate of a half-step position is an integer.         *)
(***************************************************************************)
EXTENDS Integers, Sequences, FiniteSets

VARIABLES
    pc,         \* "call" before the constructor runs, "return" after it
    op,         \* which constructor is called: "Position" or "BeerPongConfig"
    arg,        \* the position argument of Position.__init__
    index,      \* Position.index
    position,   \* Position.position
    x,          \* Position.x, in quarters of X_DIS
    y,          \* Position.y, in halves of Y_DIS
    indices,    \* BeerPongConfig argument: [given, list]
    positions,  \* BeerPongConfig argument: [given, list]
    phantoms,   \* BeerPongConfig argument: [given, list]
    cups,       \* BeerPongConfig.cups
    warning,    \* the warning printed by BeerPongConfig.__init__
    raised      \* the exception that left the constructor, or "none"

vars == <<pc, op, arg, index, position, x, y, indices, positions, phantoms,
          cups, warning, raised>>

-----------------------------------------------------------------------------
(* Bounds of the inputs. *)

\* indices tried are -IndexSlack .. 10 + IndexSlack
IndexSlack == 1

\* components tried are -CoordSlack2/2 .. 4 + CoordSlack2/2, in steps of 0.5
CoordSlack2 == 2

\* longest list of arbitrary entries given to BeerPongConfig on its own
MaxLen == 2

-----------------------------------------------------------------------------
(* Numbers and pairs. *)

IntNum(n) == [v2 |-> 2 * n, isint |-> TRUE]

FloatNum(h) == [v2 |-> h, isint |-> FALSE]

IntPair(r, c) == <<IntNum(r), IntNum(c)>>

\* the default argument position = (0, 0)
DefaultPosition == IntPair(0, 0)

\* tuple == (0, 0) in Python: by value, so (0.0, 0.0) == (0, 0) too
IsZeroPair(p) == p[1].v2 = 0 /\ p[2].v2 = 0

\* all(isinstance(i, int) for i in self.position)
AllInt(p) == p[1].isint /\ p[2].isint

RECURSIVE SumRange(_)
\* sum(range(n)) = 0 + 1 + ... + (n - 1), and 0 when n <= 0
SumRange(n) == IF n <= 0 THEN 0 ELSE (n - 1) + SumRange(n - 1)

-----------------------------------------------------------------------------
(* class Position *)

\* the table with the pairs of 5 and 6 exchanged
mappingSwapped ==
    <<IntPair(1, 1), IntPair(2, 1), IntPair(2, 2), IntPair(3, 1), IntPair(3, 3),
      IntPair(3, 2), IntPair(4, 1), IntPair(4, 2), IntPair(4, 3), IntPair(4, 4)>>

\* the lookup table of _init_xy_index
mapping ==
    <<IntPair(1, 1), IntPair(2, 1), IntPair(2, 2), IntPair(3, 1), IntPair(3, 2),
      IntPair(3, 3), IntPair(4, 1), IntPair(4, 2), IntPair(4, 3), IntPair(4, 4)>>

\* _check_position without the comparison of the index
CheckPositionNoIndex(idx, p) ==
    IF p[1].v2 < 0 \/ p[2].v2 < 0 THEN "ValueError"
    ELSE IF p[1].v2 < p[2].v2 THEN "ValueError"
    ELSE IF p[1].v2 > 8 THEN "ValueError"
    ELSE IF p[2].v2 > 8 THEN "ValueError"
    ELSE "none"

\* _check_position without the comparison of row and column
CheckPositionNoColumnOrder(idx, p) ==
    IF p[1].v2 < 0 \/ p[2].v2 < 0 THEN "ValueError"
    ELSE IF p[1].v2 > 8 THEN "ValueError"
    ELSE IF p[2].v2 > 8 THEN "ValueError"
    ELSE IF AllInt(p) /\ idx # SumRange(p[1].v2 \div 2) + (p[2].v2 \div 2)
         THEN "ValueError"
    ELSE "none"

\* _check_position: "none" when it returns True, else the exception it raises
CheckPosition(idx, p) ==
    IF p[1].v2 < 0 \/ p[2].v2 < 0 THEN "ValueError"
    ELSE IF p[1].v2 < p[2].v2 THEN "ValueError"
    ELSE IF p[1].v2 > 8 THEN "ValueError"
    ELSE IF p[2].v2 > 8 THEN "ValueError"
    ELSE IF AllInt(p) /\ idx # SumRange(p[1].v2 \div 2) + (p[2].v2 \div 2)
         THEN "ValueError"
    ELSE "none"

\* _init_xy_position without start_x
InitXYPositionNotCentred(p) ==
    [x |-> 2 * (p[2].v2 - 2),
     y |-> -(p[1].v2 - 2)]

\* _init_xy_position: max_width = (row - 1) * X_DIS, start_x = -max_width / 2,
\* x = start_x + (column - 1) * X_DIS, y = -(row - 1) * Y_DIS
InitXYPosition(p) ==
    [x |-> -(p[1].v2 - 2) + 2 * (p[2].v2 - 2),
     y |-> -(p[1].v2 - 2)]

\* an object whose constructor raised: no attribute is of use
Failed(exc, idx, p) ==
    [raised |-> exc, index |-> idx, position |-> p, x |-> 0, y |-> 0]

\* an object whose constructor returned, placed from the pair p
Built(idx, p) ==
    [raised |-> "none", index |-> idx, position |-> p,
     x |-> InitXYPosition(p).x, y |-> InitXYPosition(p).y]

\* _init_xy_index: self.position = mapping[self.index], then _init_xy_position
InitXYIndex(idx, p) ==
    IF idx \in DOMAIN mapping
    THEN Built(idx, mapping[idx])
    ELSE Failed("KeyError", idx, p)

\* Position.__init__(index, position)
PositionInit(idx, p) ==
    IF ~IsZeroPair(p)
    THEN IF CheckPosition(idx, p) # "none"
         THEN Failed(CheckPosition(idx, p), idx, p)
         ELSE Built(idx, p)
    ELSE InitXYIndex(idx, p)

-----------------------------------------------------------------------------
(* class BeerPongCup *)

\* BeerPongCup.__init__(index, position): a Position with phantom = False
BeerPongCupInit(idx, p) ==
    [raised |-> PositionInit(idx, p).raised,
     index |-> PositionInit(idx, p).index,
     position |-> PositionInit(idx, p).position,
     x |-> PositionInit(idx, p).x,
     y |-> PositionInit(idx, p).y,
     phantom |-> FALSE]

\* cup.phantom = True
SetPhantom(cup) == [cup EXCEPT !.phantom = TRUE]

\* a statement of a loop body that raised before any cup was made
NoCup(exc) ==
    [raised |-> exc, index |-> 0, position |-> DefaultPosition,
     x |-> 0, y |-> 0, phantom |-> FALSE]

-----------------------------------------------------------------------------
(* class BeerPongConfig *)

\* An entry of the phantoms list: a Python int, a 2-tuple, or None.
IntEntry(i) == [kind |-> "int", index |-> i, position |-> DefaultPosition]

TupleEntry(p) == [kind |-> "tuple", index |-> 0, position |-> p]

NoneEntry == [kind |-> "other", index |-> 0, position |-> DefaultPosition]

\* A for loop that appends one cup per entry: it stops at the first entry
\* whose body raises, and the exception leaves the method.
Loop(results) ==
    IF \E k \in DOMAIN results : results[k].raised # "none"
    THEN [raised |-> results[CHOOSE k \in DOMAIN results :
                               /\ results[k].raised # "none"
                               /\ \A j \in 1..(k - 1) : results[j].raised = "none"].raised,
          cups |-> <<>>]
    ELSE [raised |-> "none", cups |-> results]

\* _init_indices: BeerPongCup(index) for index in indices
InitIndices(list) ==
    Loop([k \in DOMAIN list |-> BeerPongCupInit(list[k], DefaultPosition)])

\* _init_positions: BeerPongCup(-1, (x, y)) for x, y in positions
InitPositions(list) ==
    Loop([k \in DOMAIN list |-> BeerPongCupInit(-1, list[k])])

\* the body of "for index in phantoms": BeerPongCup(index), phantom = True.
\* An index that is a tuple or None is no key of the lookup table.
PhantomOfIndex(e) ==
    IF e.kind = "int"
    THEN IF BeerPongCupInit(e.index, DefaultPosition).raised = "none"
         THEN SetPhantom(BeerPongCupInit(e.index, DefaultPosition))
         ELSE BeerPongCupInit(e.index, DefaultPosition)
    ELSE NoCup("KeyError")

\* the body of "for x, y in phantoms": BeerPongCup(-1, (x, y)), phantom = True.
\* An int or None cannot be unpacked.
PhantomOfPosition(e) ==
    IF e.kind = "tuple"
    THEN IF BeerPongCupInit(-1, e.position).raised = "none"
         THEN SetPhantom(BeerPongCupInit(-1, e.position))
         ELSE BeerPongCupInit(-1, e.position)
    ELSE NoCup("TypeError")

\* _init_phantoms: the branch is chosen by the type of phantoms[0]
InitPhantoms(list) ==
    IF Len(list) = 0 THEN [raised |-> "IndexError", cups |-> <<>>]
    ELSE IF list[1].kind = "int"
    THEN Loop([k \in DOMAIN list |-> PhantomOfIndex(list[k])])
    ELSE IF list[1].kind = "tuple"
    THEN Loop([k \in DOMAIN list |-> PhantomOfPosition(list[k])])
    ELSE [raised |-> "ValueError", cups |-> <<>>]

\* _complete_table: BeerPongCup(i) for i in range(1, 11)
CompleteTable ==
    Loop([k \in 1..10 |-> BeerPongCupInit(k, DefaultPosition)])

\* an argument left at its default None, and one given as a list
Absent == [given |-> FALSE, list |-> <<>>]

Given(list) == [given |-> TRUE, list |-> list]

\* the part of an argument: nothing when it is None
Part(argument, made) ==
    IF argument.given THEN made ELSE [raised |-> "none", cups |-> <<>>]

\* the default layout taken whenever nothing is listed
DefaultWhenEmpty(ind, pos, ph) ==
    IF Len(ind.list) = 0 /\ Len(pos.list) = 0 /\ Len(ph.list) = 0
    THEN CompleteTable
    ELSE [raised |-> "none", cups |-> <<>>]

\* the default layout, when all three arguments are None
DefaultPart(ind, pos, ph) ==
    IF ~ind.given /\ ~pos.given /\ ~ph.given
    THEN CompleteTable
    ELSE [raised |-> "none", cups |-> <<>>]

\* the two warnings of __init__
WarningOf(n) ==
    IF n = 0 THEN "No cups were created."
    ELSE IF n > 10 THEN "More than 10 cups were created."
    ELSE "none"

\* BeerPongConfig.__init__(title, indices, positions, phantoms): the parts are
\* made in this order and the first exception leaves the constructor
ConfigInit(ind, pos, ph) ==
    LET a == Part(ind, InitIndices(ind.list))
        b == Part(pos, InitPositions(pos.list))
        c == Part(ph, InitPhantoms(ph.list))
        d == DefaultPart(ind, pos, ph)
        all == a.cups \o b.cups \o c.cups \o d.cups
    IN  IF a.raised # "none" THEN [raised |-> a.raised, cups |-> <<>>, warning |-> "none"]
        ELSE IF b.raised # "none" THEN [raised |-> b.raised, cups |-> <<>>, warning |-> "none"]
        ELSE IF c.raised # "none" THEN [raised |-> c.raised, cups |-> <<>>, warning |-> "none"]
        ELSE [raised |-> "none", cups |-> all, warning |-> WarningOf(Len(all))]

-----------------------------------------------------------------------------
(* The calls that are tried. *)

Indices == (0 - IndexSlack)..(10 + IndexSlack)

Halves == (0 - CoordSlack2)..(8 + CoordSlack2)

\* ints, and floats that are multiples of 0.5 (2.0 is a float, not an int)
Nums == {IntNum(n) : n \in {h \div 2 : h \in {g \in Halves : g % 2 = 0}}}
            \cup {FloatNum(h) : h \in Halves}

Pairs == {<<r, c>> : r \in Nums, c \in Nums}

\* the pairs given to BeerPongConfig: the int pairs with column <= row <= 4,
\* one with column > row, and the half-step pairs of 0.5 and 1.5
ConfigPairs == {IntPair(q[1], q[2]) : q \in {t \in (0..4) \X (0..4) : t[2] <= t[1]}}
                   \cup {IntPair(1, 2)}
                   \cup {<<FloatNum(r), FloatNum(c)>> : r \in {1, 3}, c \in {1, 3}}

\* every list of at most n entries of S
ListsUpTo(S, n) == UNION {[1..k -> S] : k \in 0..n}

\* [a, a + 1, ..., b]
Range(a, b) == [k \in 1..(b - a + 1) |-> a + k - 1]

\* the lists [1..n], n = 0..10
Prefixes == {Range(1, n) : n \in 0..10}

\* the entries of a phantoms list of mixed types
MixedEntries == {IntEntry(1), IntEntry(10), IntEntry(11),
                 TupleEntry(IntPair(1, 1)), TupleEntry(IntPair(1, 2)),
                 TupleEntry(<<FloatNum(3), FloatNum(3)>>), NoneEntry}

Entries(list) == [k \in DOMAIN list |-> IntEntry(list[k])]

TupleEntries(list) == [k \in DOMAIN list |-> TupleEntry(list[k])]

\* a call with one argument given: any short list, or any run [a..b] of indices
SingleCalls ==
    {<<Given(l), Absent, Absent>> :
        l \in ListsUpTo(Indices, MaxLen) \cup {Range(a, b) : a \in 1..10, b \in 1..10}}
    \cup {<<Absent, Given(l), Absent>> : l \in ListsUpTo(ConfigPairs, MaxLen)}
    \cup {<<Absent, Absent, Given(l)>> :
        l \in {Entries(m) : m \in ListsUpTo(Indices, MaxLen)}
                  \cup {Entries(Range(a, b)) : a \in 1..10, b \in 1..10}
                  \cup {TupleEntries(m) : m \in ListsUpTo(ConfigPairs, MaxLen)}
                  \cup ListsUpTo(MixedEntries, MaxLen)}

\* a call with any of the arguments given: a list [1..n] of indices, at most
\* one position, and phantoms [1..n] or at most one phantom position
CombinedCalls ==
    {<<i, q, f>> :
        i \in {Absent} \cup {Given(l) : l \in Prefixes},
        q \in {Absent} \cup {Given(l) : l \in ListsUpTo(ConfigPairs, 1)},
        f \in {Absent} \cup {Given(Entries(l)) : l \in Prefixes}
                       \cup {Given(TupleEntries(l)) : l \in ListsUpTo(ConfigPairs, 1)}}

ConfigCalls == SingleCalls \cup CombinedCalls

-----------------------------------------------------------------------------
(* The state machine: a caller picks a constructor and its arguments, and   *)
(* the constructor runs.                                                    *)

InitPosition ==
    /\ pc = "call"
    /\ op = "Position"
    /\ index \in Indices
    /\ arg \in Pairs
    /\ position = arg
    /\ x = 0
    /\ y = 0
    /\ indices = Absent
    /\ positions = Absent
    /\ phantoms = Absent
    /\ cups = <<>>
    /\ warning = "none"
    /\ raised = "none"

InitConfig ==
    /\ pc = "call"
    /\ op = "BeerPongConfig"
    /\ index = 0
    /\ arg = DefaultPosition
    /\ position = DefaultPosition
    /\ x = 0
    /\ y = 0
    /\ \E call \in ConfigCalls :
          /\ indices = call[1]
          /\ positions = call[2]
          /\ phantoms = call[3]
    /\ cups = <<>>
    /\ warning = "none"
    /\ raised = "none"

Init == InitPosition \/ InitConfig

\* Position(index, position)
NewPosition ==
    /\ pc = "call"
    /\ op = "Position"
    /\ pc' = "return"
    /\ raised' = PositionInit(index, position).raised
    /\ position' = PositionInit(index, position).position
    /\ x' = PositionInit(index, position).x
    /\ y' = PositionInit(index, position).y
    /\ UNCHANGED <<op, arg, index, indices, positions, phantoms, cups, warning>>

\* BeerPongConfig(title, indices, positions, phantoms)
NewConfig ==
    /\ pc = "call"
    /\ op = "BeerPongConfig"
    /\ pc' = "return"
    /\ raised' = ConfigInit(indices, positions, phantoms).raised
    /\ cups' = ConfigInit(indices, positions, phantoms).cups
    /\ warning' = ConfigInit(indices, positions, phantoms).warning
    /\ UNCHANGED <<op, arg, index, position, x, y, indices, positions, phantoms>>

Next == NewPosition \/ NewConfig

Spec == Init /\ [][Next]_vars

-----------------------------------------------------------------------------
(* Properties. *)

PositionReturned == pc = "return" /\ op = "Position"

ConfigReturned == pc = "return" /\ op = "BeerPongConfig"

\* the value of a component, doubled
Row2(p) == p[1].v2

Col2(p) == p[2].v2

\* sum(1..row-1) + column of an int pair
ClosedFormIndex(p) ==
    ((Row2(p) \div 2) * ((Row2(p) \div 2) - 1)) \div 2 + (Col2(p) \div 2)

\* column <= row <= 4 with rows and columns >= 0
InTriangleBounds(p) ==
    /\ 0 <= Col2(p)
    /\ Col2(p) <= Row2(p)
    /\ Row2(p) <= 8

\* a slot: int row in 1..4, int column in 1..row
IsSlot(p) ==
    /\ AllInt(p)
    /\ 2 <= Col2(p)
    /\ Col2(p) <= Row2(p)
    /\ Row2(p) <= 8

\* y = -(row - 1) * ROW_SPACING in halves of the spacing,
\* x = -((row - 1) * COL_SPACING) / 2 + (column - 1) * COL_SPACING in quarters
HasFormulaCoordinates(p, cx, cy) ==
    /\ cy = 2 - Row2(p)
    /\ cx = (2 - Row2(p)) + 2 * Col2(p) - 4

\* C1: for every index i in 1..10, Position(i, pair of the lookup table for i)
\* succeeds, Position(i) succeeds, and both have the same (x, y).
C1_IndexAndTablePairAgree ==
    (PositionReturned /\ index \in 1..10 /\ arg = mapping[index])
        => /\ raised = "none"
           /\ PositionInit(index, DefaultPosition).raised = "none"
           /\ x = PositionInit(index, DefaultPosition).x
           /\ y = PositionInit(index, DefaultPosition).y

\* index 5 with the pair (3, 2): the centre of row 3, x = 0, y = -2 spacings
C1_Witness ==
    /\ PositionReturned
    /\ index = 5
    /\ arg = IntPair(3, 2)
    /\ raised = "none"
    /\ x = 0
    /\ y = -4

\* C2 as stated: for any int pair with 0 <= column <= row <= 4 and any explicit
\* index, construction succeeds only if index = sum(1..row-1) + column, and
\* raises ValueError for every other index.
C2_AsStated ==
    (PositionReturned /\ AllInt(arg) /\ InTriangleBounds(arg))
        => /\ raised = "none" => index = ClosedFormIndex(arg)
           /\ index # ClosedFormIndex(arg) => raised = "ValueError"

\* C2 amended: the same for every such pair other than (0, 0).
C2_MismatchedIndexRejected ==
    (PositionReturned /\ AllInt(arg) /\ InTriangleBounds(arg) /\ ~IsZeroPair(arg))
        => /\ raised = "none" => index = ClosedFormIndex(arg)
           /\ index # ClosedFormIndex(arg) => raised = "ValueError"

\* the pair (3, 2) with index 6 instead of 5 is rejected
C2_Witness ==
    /\ PositionReturned
    /\ arg = IntPair(3, 2)
    /\ index = 6
    /\ raised = "ValueError"

\* C3: a pair (int or half-step) with column > row, row > 4, column > 4 or a
\* negative component is rejected with ValueError, whatever the index.
C3_OutOfTriangleRejected ==
    (PositionReturned /\ (\/ Col2(arg) > Row2(arg)
                          \/ Row2(arg) > 8
                          \/ Col2(arg) > 8
                          \/ Row2(arg) < 0
                          \/ Col2(arg) < 0))
        => raised = "ValueError"

\* the half-step pair (0.5, 1.5), column > row, is rejected
C3_Witness ==
    /\ PositionReturned
    /\ arg = <<FloatNum(1), FloatNum(3)>>
    /\ raised = "ValueError"

\* the cups are one per entry of the list of pairs, in order, each at the
\* coordinates the formula gives for its pair
OneCupPerPair(list) ==
    /\ raised = "none"
    /\ Len(cups) = Len(list)
    /\ \A k \in 1..Len(list) :
          k \in DOMAIN cups => HasFormulaCoordinates(list[k], cups[k].x, cups[k].y)

\* C4: a list of slots given as positions, or as phantom positions, makes
\* exactly one item per listed slot, in order, at the formula's coordinates
\* (stated here for the lists that have an entry).
C4_SlotListsBuildItems ==
    /\ (ConfigReturned /\ ~indices.given /\ positions.given /\ ~phantoms.given
          /\ Len(positions.list) > 0
          /\ \A k \in DOMAIN positions.list : IsSlot(positions.list[k]))
        => OneCupPerPair(positions.list)
    /\ (ConfigReturned /\ ~indices.given /\ ~positions.given /\ phantoms.given
          /\ Len(phantoms.list) > 0
          /\ \A k \in DOMAIN phantoms.list :
                phantoms.list[k].kind = "tuple" /\ IsSlot(phantoms.list[k].position))
        => OneCupPerPair([k \in DOMAIN phantoms.list |-> phantoms.list[k].position])

SomeGiven == indices.given \/ positions.given \/ phantoms.given

TotalListed == Len(indices.list) + Len(positions.list) + Len(phantoms.list)

\* C5: with indices, positions and phantoms all absent there are exactly 10
\* items, of index 1..10 in ascending order, none phantom, and no warning;
\* when some argument is given, even as an empty list, the items are only
\* those listed.
C5_DefaultLayout ==
    /\ (ConfigReturned /\ ~SomeGiven)
        => /\ raised = "none"
           /\ Len(cups) = 10
           /\ \A k \in 1..10 :
                 k \in DOMAIN cups => cups[k].index = k /\ ~cups[k].phantom
           /\ warning = "none"
    /\ (ConfigReturned /\ SomeGiven /\ raised = "none")
        => Len(cups) = TotalListed

\* BeerPongConfig(title) has returned the complete table
C5_Witness ==
    /\ ConfigReturned
    /\ ~SomeGiven
    /\ raised = "none"
    /\ Len(cups) = 10
    /\ cups[10].index = 10
    /\ cups[10].position = IntPair(4, 4)

\* phantoms alone is given, as a list of indices in 1..10
OnlyPhantomIndices ==
    /\ ConfigReturned
    /\ ~indices.given
    /\ ~positions.given
    /\ phantoms.given
    /\ \A k \in DOMAIN phantoms.list :
          phantoms.list[k].kind = "int" /\ phantoms.list[k].index \in 1..10

\* one cup per listed index, each phantom, each with the (row, column) and
\* (x, y) of the real cup of that index
PhantomCupsMatchRealCups ==
    /\ raised = "none"
    /\ Len(cups) = Len(phantoms.list)
    /\ \A k \in 1..Len(phantoms.list) :
          k \in DOMAIN cups =>
             LET real == BeerPongCupInit(phantoms.list[k].index, DefaultPosition)
             IN  /\ cups[k].phantom
                 /\ ~real.phantom
                 /\ cups[k].index = phantoms.list[k].index
                 /\ cups[k].position = real.position
                 /\ cups[k].x = real.x
                 /\ cups[k].y = real.y

\* C6: a list of indices in 1..10 given as phantoms, nothing else given, makes
\* one item per listed index, each phantom, each with the (row, column) and
\* (x, y) of the real cup of that index.
C6_PhantomIndexLists == OnlyPhantomIndices => PhantomCupsMatchRealCups

\* the same for the lists that have an entry
NonEmptyPhantomIndexLists ==
    (OnlyPhantomIndices /\ Len(phantoms.list) > 0) => PhantomCupsMatchRealCups

\* the phantoms list has an int entry and a pair entry, and no other entry
IsMixed(list) ==
    /\ \E k \in DOMAIN list : list[k].kind = "int"
    /\ \E k \in DOMAIN list : list[k].kind = "tuple"
    /\ \A k \in DOMAIN list : list[k].kind \in {"int", "tuple"}

\* C7: a phantoms list that mixes indices and pairs raises ValueError,
\* whichever type comes first.
C7_MixedPhantomsRejected ==
    (ConfigReturned /\ phantoms.given /\ IsMixed(phantoms.list))
        => raised = "ValueError"

\* a pair accepted on its own: inside the bounds, not (0, 0)
IsValidPair(p) == InTriangleBounds(p) /\ ~IsZeroPair(p) /\ (AllInt(p) => IsSlot(p))

ValidIndices(list) == \A k \in DOMAIN list : list[k] \in 1..10

ValidPairs(list) == \A k \in DOMAIN list : IsValidPair(list[k])

ValidPhantoms(list) ==
    \/ \A k \in DOMAIN list : list[k].kind = "int" /\ list[k].index \in 1..10
    \/ \A k \in DOMAIN list : list[k].kind = "tuple" /\ IsValidPair(list[k].position)

\* C8: when each argument is absent or a (possibly empty) list of valid
\* entries, the constructor does not raise, it warns exactly when the item
\* count is 0 or above 10, and it keeps every item.
C8_CountAnomaliesOnlyWarn ==
    (ConfigReturned /\ ValidIndices(indices.list) /\ ValidPairs(positions.list)
       /\ ValidPhantoms(phantoms.list))
        => /\ raised = "none"
           /\ (warning # "none") <=> (Len(cups) = 0 \/ Len(cups) > 10)
           /\ SomeGiven => Len(cups) = TotalListed

C10_IntPositionsAreSlots ==
    (PositionReturned /\ raised = "none" /\ AllInt(position))
        => /\ IsSlot(position)
           /\ index \in 1..10
           /\ index \in DOMAIN mapping => position = mapping[index]

=============================================================================
